---- MODULE Spec2Model ----
(***************************************************************************)
(* Model of scripts/doc_structure.py: the document structure analyzer.     *)
(* Text is modelled as a sequence of one-character strings, so that the    *)
(* regular expressions of the source are computed character by character.  *)
(***************************************************************************)
EXTENDS Integers, Sequences, FiniteSets, TLC

\* ------------------------------------------------------------------------
\* Bounds of the model
\* ------------------------------------------------------------------------
MaxLines == 3
MaxPages == 24
MaxLong == 52
MaxChars == 5

\* ------------------------------------------------------------------------
\* Program constants
\* ------------------------------------------------------------------------
HeaderCap == 50
SectionCap == 30
TocCap == 30
ShownHeaders == 20
ShownSections == 15
ShownToc == 20
ChunkCount == 6

\* ------------------------------------------------------------------------
\* Characters and the str / re primitives the source relies on
\* ------------------------------------------------------------------------
Digits == {"0", "1", "2", "3", "4", "5", "6", "7", "8", "9"}
Upper == {"A", "B", "C", "D", "E", "F", "G", "H", "I", "J", "K", "L", "M",
          "N", "O", "P", "Q", "R", "S", "T", "U", "V", "W", "X", "Y", "Z"}
Lower == {"a", "b", "c", "d", "e", "f", "g", "h", "i", "j", "k", "l", "m",
          "n", "o", "p", "q", "r", "s", "t", "u", "v", "w", "x", "y", "z"}
Whitespace == {" ", "\t", "\n", "\r"}
Punct == {"#", "\\", "{", "}", ".", ":", "-"}
Roman == {"I", "V", "X", "L", "C"}
Alphabet == Digits \cup Upper \cup Lower \cup Whitespace \cup Punct

Min(a, b) == IF a <= b THEN a ELSE b
Max(a, b) == IF a >= b THEN a ELSE b

\* s[:n]
Take(s, n) == SubSeq(s, 1, Min(n, Len(s)))

\* number of consecutive characters of s, from position p on, that lie in S
RECURSIVE Run(_, _, _)
Run(s, p, S) ==
    IF p <= Len(s) /\ s[p] \in S THEN 1 + Run(s, p + 1, S) ELSE 0

\* the literal w occurs in s at position p
HasPrefixAt(s, p, w) ==
    /\ p >= 1
    /\ p + Len(w) - 1 <= Len(s)
    /\ \A k \in 1..Len(w) : s[p + k - 1] = w[k]

\* str.strip()
Strip(s) ==
    LET keep == {i \in 1..Len(s) : s[i] \notin Whitespace}
    IN  IF keep = {} THEN <<>>
        ELSE SubSeq(s, CHOOSE i \in keep : \A j \in keep : i <= j,
                       CHOOSE i \in keep : \A j \in keep : i >= j)

\* str.rstrip(':')
RstripColon(s) ==
    LET keep == {i \in 1..Len(s) : s[i] # ":"}
    IN  IF keep = {} THEN <<>>
        ELSE SubSeq(s, 1, CHOOSE i \in keep : \A j \in keep : i >= j)

\* str.replace(' ', '')
RemoveSpaces(s) == SelectSeq(s, LAMBDA c : c # " ")

\* str.isupper(): at least one cased character, and no lower-case one
IsUpperStr(s) ==
    /\ \E i \in 1..Len(s) : s[i] \in Upper
    /\ \A i \in 1..Len(s) : s[i] \notin Lower

\* str.isalpha()
IsAlphaStr(s) ==
    /\ Len(s) > 0
    /\ \A i \in 1..Len(s) : s[i] \in Upper \cup Lower

\* '\n'.join(lines)
RECURSIVE Join(_)
Join(ls) ==
    IF Len(ls) = 0 THEN <<>>
    ELSE IF Len(ls) = 1 THEN ls[1]
    ELSE ls[1] \o <<"\n">> \o Join(Tail(ls))

\* content.split('\n')
RECURSIVE SplitFrom(_, _)
SplitFrom(s, p) ==
    LET nl == {i \in p..Len(s) : s[i] = "\n"}
    IN  IF nl = {} THEN <<SubSeq(s, p, Len(s))>>
        ELSE LET q == CHOOSE i \in nl : \A j \in nl : i <= j
             IN  <<SubSeq(s, p, q - 1)>> \o SplitFrom(s, q + 1)

Split(s) == SplitFrom(s, 1)

\* len(content.split()): the number of whitespace-separated words
WordCount(s) ==
    Cardinality({i \in 1..Len(s) :
                    /\ s[i] \notin Whitespace
                    /\ (i = 1 \/ s[i - 1] \in Whitespace)})

\* the positions at which ^ matches under re.MULTILINE
LineStarts(s) == {1} \cup {i + 1 : i \in {j \in 1..Len(s) : s[j] = "\n"}}

\* ------------------------------------------------------------------------
\* Format detection (analyze_text_structure, format_hint == 'auto')
\* ------------------------------------------------------------------------
\* re.search(r'^#{1,6}\s', content, re.MULTILINE)
MarkdownProbe(s) ==
    \E p \in LineStarts(s) : \E k \in 1..6 :
        /\ p + k <= Len(s)
        /\ \A j \in 0..(k - 1) : s[p + j] = "#"
        /\ s[p + k] \in Whitespace

KwSection == <<"s", "e", "c", "t", "i", "o", "n">>
KwChapter == <<"c", "h", "a", "p", "t", "e", "r">>
KwSubsection == <<"s", "u", "b", "s", "e", "c", "t", "i", "o", "n">>
KwTitle == <<"t", "i", "t", "l", "e">>
WordChapter == <<"C", "h", "a", "p", "t", "e", "r">>
WordCHAPTER == <<"C", "H", "A", "P", "T", "E", "R">>

\* re.search(r'^\\(section|chapter|title)\{', content, re.MULTILINE)
LatexProbe(s) ==
    \E p \in LineStarts(s) : \E w \in {KwSection, KwChapter, KwTitle} :
        HasPrefixAt(s, p, <<"\\">> \o w \o <<"{">>)

\* re.search(r'^Chapter \d|^CHAPTER \d|^\d+\.\s+[A-Z]', content, re.MULTILINE)
BookProbe(s) ==
    \E p \in LineStarts(s) :
        \/ \E w \in {WordChapter, WordCHAPTER} :
              /\ HasPrefixAt(s, p, w \o <<" ">>)
              /\ p + Len(w) + 1 <= Len(s)
              /\ s[p + Len(w) + 1] \in Digits
        \/ \E d \in 1..Run(s, p, Digits) :
              /\ p + d <= Len(s)
              /\ s[p + d] = "."
              /\ \E w \in 1..Run(s, p + d + 1, Whitespace) :
                    /\ p + d + w + 1 <= Len(s)
                    /\ s[p + d + w + 1] \in Upper

DetectFormat(content) ==
    IF MarkdownProbe(content) THEN "markdown"
    ELSE IF LatexProbe(content) THEN "latex"
    ELSE IF BookProbe(content) THEN "book"
    ELSE "plain"

\* ------------------------------------------------------------------------
\* Header extraction, one rule set per format
\* ------------------------------------------------------------------------
Header(n, lvl, txt) == [line |-> n, level |-> lvl, text |-> txt]

\* re.match(r'^(#{1,6})\s+(.+)$', line): the marker counts k that match
MarkdownLevels(line) ==
    {k \in 1..6 :
        /\ k <= Len(line)
        /\ \A j \in 1..k : line[j] = "#"
        /\ \E w \in 1..Run(line, k + 1, Whitespace) : k + w < Len(line)}

MarkdownLine(n, line) ==
    LET ks == MarkdownLevels(line)
    IN  IF ks = {} THEN <<>>
        ELSE LET k == CHOOSE x \in ks : \A y \in ks : x >= y
                 ws == {w \in 1..Run(line, k + 1, Whitespace) : k + w < Len(line)}
                 w == CHOOSE x \in ws : \A y \in ws : x >= y
             IN  <<Header(n, k, Strip(SubSeq(line, k + w + 1, Len(line))))>>

\* re.search(r'\\<kw>\{([^}]+)\}', line): the positions where it matches
LatexPositions(line, kw) ==
    LET lit == <<"\\">> \o kw \o <<"{">>
    IN  {p \in 1..Len(line) :
            /\ HasPrefixAt(line, p, lit)
            /\ LET q == p + Len(lit)
                   r == Run(line, q, Alphabet \ {"}"})
               IN  r >= 1 /\ q + r <= Len(line)}

LatexMatch(n, line, kw, lvl) ==
    LET ps == LatexPositions(line, kw)
    IN  IF ps = {} THEN <<>>
        ELSE LET p == CHOOSE x \in ps : \A y \in ps : x <= y
                 q == p + Len(kw) + 2
                 r == Run(line, q, Alphabet \ {"}"})
             IN  <<Header(n, lvl, Strip(SubSeq(line, q, q + r - 1)))>>

\* the inner loop over the three patterns has no break
LatexLine(n, line) ==
    LatexMatch(n, line, KwChapter, 1) \o LatexMatch(n, line, KwSection, 2)
        \o LatexMatch(n, line, KwSubsection, 3)

\* r'^(Chapter|CHAPTER)\s+(\d+|[IVXLC]+)[:\.]?\s*(.*)$' on the stripped line
BookChapterMatch(n, t) ==
    LET ws == Run(t, 8, Whitespace)
        a == 8 + ws
        d == Run(t, a, Digits)
        g2len == IF d >= 1 THEN d ELSE Run(t, a, Roman)
        b == a + g2len
        c == IF b <= Len(t) /\ t[b] \in {":", "."} THEN b + 1 ELSE b
        e == c + Run(t, c, Whitespace)
    IN  IF /\ (HasPrefixAt(t, 1, WordChapter) \/ HasPrefixAt(t, 1, WordCHAPTER))
           /\ ws >= 1
           /\ g2len >= 1
        THEN <<Header(n, 1, Strip(SubSeq(t, 1, 7) \o <<" ">> \o SubSeq(t, a, b - 1)
                                    \o <<" ">> \o SubSeq(t, e, Len(t))))>>
        ELSE <<>>

\* r'^(\d+)\.\s+([A-Z][^.]+)$' on the stripped line
BookNumberedMatch(n, t) ==
    LET d == Run(t, 1, Digits)
        ws == Run(t, d + 2, Whitespace)
        u == d + 2 + ws
    IN  IF /\ d >= 1
           /\ d + 1 <= Len(t)
           /\ t[d + 1] = "."
           /\ ws >= 1
           /\ u < Len(t)
           /\ t[u] \in Upper
           /\ \A j \in (u + 1)..Len(t) : t[j] # "."
        THEN <<Header(n, 2, Strip(SubSeq(t, u, Len(t))))>>
        ELSE <<>>

\* r'^(\d+\.\d+)\s+(.+)$' on the stripped line
BookDottedMatch(n, t) ==
    LET d1 == Run(t, 1, Digits)
        d2 == Run(t, d1 + 2, Digits)
        a == d1 + d2 + 2
        ws == {w \in 1..Run(t, a, Whitespace) : a + w <= Len(t)}
    IN  IF /\ d1 >= 1
           /\ d1 + 1 <= Len(t)
           /\ t[d1 + 1] = "."
           /\ d2 >= 1
           /\ ws # {}
        THEN LET w == CHOOSE x \in ws : \A y \in ws : x >= y
             IN  <<Header(n, 3, Strip(SubSeq(t, a + w, Len(t))))>>
        ELSE <<>>

\* book rules applied to the line as it stands, without line.strip()
BookLineUnstripped(n, line) ==
    IF BookChapterMatch(n, line) # <<>> THEN BookChapterMatch(n, line)
    ELSE IF BookNumberedMatch(n, line) # <<>> THEN BookNumberedMatch(n, line)
    ELSE BookDottedMatch(n, line)

\* the three patterns in order; break at the first match
BookLine(n, line) ==
    LET t == Strip(line)
    IN  IF BookChapterMatch(n, t) # <<>> THEN BookChapterMatch(n, t)
        ELSE IF BookNumberedMatch(n, t) # <<>> THEN BookNumberedMatch(n, t)
        ELSE BookDottedMatch(n, t)

\* the plain heuristic: an all-caps line, or a line ending with a colon
PlainLine(n, line) ==
    LET stripped == Strip(line)
    IN  IF /\ stripped # <<>>
           /\ \/ IsUpperStr(stripped) /\ Len(stripped) > 3 /\ Len(stripped) < 100
              \/ /\ stripped[Len(stripped)] = ":"
                 /\ Len(stripped) < 80
                 /\ IsAlphaStr(RemoveSpaces(SubSeq(stripped, 1, Len(stripped) - 1)))
        THEN <<Header(n, IF IsUpperStr(stripped) THEN 1 ELSE 2, RstripColon(stripped))>>
        ELSE <<>>

\* the headers of line n (1-based) under the given format; any format_hint
\* other than markdown, latex and book takes the final else branch
LineHeaders(fmt, n, line) ==
    IF fmt = "markdown" THEN MarkdownLine(n, line)
    ELSE IF fmt = "latex" THEN LatexLine(n, line)
    ELSE IF fmt = "book" THEN BookLine(n, line)
    ELSE PlainLine(n, line)

\* for i, line in enumerate(lines): ... headers.append(...)
RECURSIVE CollectHeaders(_, _, _)
CollectHeaders(fmt, lines, n) ==
    IF n > Len(lines) THEN <<>>
    ELSE LineHeaders(fmt, n, lines[n]) \o CollectHeaders(fmt, lines, n + 1)

\* a latex extractor that loops over the patterns first and the lines second
RECURSIVE LatexByPattern(_, _, _, _)
LatexByPattern(lines, n, kw, lvl) ==
    IF n > Len(lines) THEN <<>>
    ELSE LatexMatch(n, lines[n], kw, lvl) \o LatexByPattern(lines, n + 1, kw, lvl)

ExtractHeadersPatternMajor(fmt, lines) ==
    IF fmt = "latex"
    THEN LatexByPattern(lines, 1, KwChapter, 1) \o LatexByPattern(lines, 1, KwSection, 2)
            \o LatexByPattern(lines, 1, KwSubsection, 3)
    ELSE CollectHeaders(fmt, lines, 1)

ExtractHeaders(fmt, lines) == CollectHeaders(fmt, lines, 1)

\* ------------------------------------------------------------------------
\* Sections: one per header, up to the line before the next header
\* ------------------------------------------------------------------------
Section(nm, s, e) ==
    [name |-> nm, start_line |-> s, end_line |-> e, line_count |-> e - s + 1]

\* a section builder whose last section ends at its own header line
BuildSectionsLastClosed(headers, total_lines) ==
    [i \in 1..Len(headers) |->
        Section(headers[i].text, headers[i].line,
                IF i + 1 <= Len(headers) THEN headers[i + 1].line - 1
                ELSE headers[i].line)]

\* a section builder whose sections end on the next header line
BuildSectionsOverlapping(headers, total_lines) ==
    [i \in 1..Len(headers) |->
        Section(headers[i].text, headers[i].line,
                IF i + 1 <= Len(headers) THEN headers[i + 1].line
                ELSE total_lines)]

\* a section builder that sees only the headers that survive the section cap
BuildSectionsFromCapped(headers, total_lines) ==
    [i \in 1..Min(Len(headers), SectionCap) |->
        Section(headers[i].text, headers[i].line,
                IF i + 1 <= Min(Len(headers), SectionCap) THEN headers[i + 1].line - 1
                ELSE total_lines)]

BuildSections(headers, total_lines) ==
    [i \in 1..Len(headers) |->
        Section(headers[i].text, headers[i].line,
                IF i + 1 <= Len(headers) THEN headers[i + 1].line - 1
                ELSE total_lines)]

\* ------------------------------------------------------------------------
\* Sampling points
\* ------------------------------------------------------------------------
BeginningCap == 100
LinePad == 50
PagePad == 5

\* a chunk list whose single-window case also takes total = ChunkCount
ChunksInclusiveThreshold(total) ==
    LET chunk_size == Max(1, total \div ChunkCount)
    IN  IF total <= ChunkCount THEN <<(<<1, total>>)>>
        ELSE [i \in 1..ChunkCount |->
                <<(i - 1) * chunk_size + 1, Min(i * chunk_size, total)>>]

\* the 'chunks' entry, identical in analyze_text_structure and analyze_pdf_structure
Chunks(total) ==
    LET chunk_size == Max(1, total \div ChunkCount)
    IN  IF total < ChunkCount THEN <<(<<1, total>>)>>
        ELSE [i \in 1..ChunkCount |->
                <<(i - 1) * chunk_size + 1, Min(i * chunk_size, total)>>]

TextSamplingPoints(total_lines) ==
    [beginning |-> IF total_lines > 10
                   THEN <<1, Min(total_lines \div 10, BeginningCap)>>
                   ELSE <<1, total_lines>>,
     q25 |-> <<total_lines \div 4, Min(total_lines, total_lines \div 4 + LinePad)>>,
     q50 |-> <<total_lines \div 2, Min(total_lines, total_lines \div 2 + LinePad)>>,
     q75 |-> <<(3 * total_lines) \div 4,
               Min(total_lines, (3 * total_lines) \div 4 + LinePad)>>,
     end |-> <<Max(1, total_lines - total_lines \div 10), total_lines>>,
     chunks |-> Chunks(total_lines)]

PdfSamplingPoints(total_pages) ==
    [beginning |-> IF total_pages > 10
                   THEN <<1, Max(1, total_pages \div 10)>>
                   ELSE <<1, total_pages>>,
     q25 |-> <<total_pages \div 4, Min(total_pages, total_pages \div 4 + PagePad)>>,
     q50 |-> <<total_pages \div 2, Min(total_pages, total_pages \div 2 + PagePad)>>,
     q75 |-> <<(3 * total_pages) \div 4,
               Min(total_pages, (3 * total_pages) \div 4 + PagePad)>>,
     end |-> <<Max(1, total_pages - total_pages \div 10), total_pages>>,
     chunks |-> Chunks(total_pages)]

\* ------------------------------------------------------------------------
\* The three functions of doc_structure.py
\* ------------------------------------------------------------------------
Choices == {"auto", "markdown", "latex", "book", "plain"}
NoLocals == [lines |-> <<>>, headers |-> <<>>, sections |-> <<>>]

\* analyze_text_structure(filepath, format_hint): the outcome, the function's
\* locals (the full header and section lists) and the returned dict.
\* open(..., errors='replace') cannot raise UnicodeDecodeError; a missing or
\* unreadable file raises an OSError, which the except clause catches.
analyze_text_structure(filepath, fstate, content, format_arg) ==
    IF fstate # "ok"
    THEN [outcome |-> "returned", locals |-> NoLocals,
          result |-> [error |-> <<"Error reading file", fstate>>]]
    ELSE LET lines == Split(content)
             total_lines == Len(lines)
             format_hint == IF format_arg = "auto" THEN DetectFormat(content)
                            ELSE format_arg
             headers == ExtractHeaders(format_hint, lines)
             sections == BuildSections(headers, total_lines)
         IN  [outcome |-> "returned",
              locals |-> [lines |-> lines, headers |-> headers, sections |-> sections],
              result |-> [filepath |-> filepath,
                          format |-> format_hint,
                          total_lines |-> total_lines,
                          total_chars |-> Len(content),
                          total_words |-> WordCount(content),
                          headers |-> Take(headers, HeaderCap),
                          sections |-> Take(sections, SectionCap),
                          sampling_points |-> TextSamplingPoints(total_lines)]]

PdfReport(filepath, total_pages, toc) ==
    [filepath |-> filepath,
     format |-> "pdf",
     total_pages |-> total_pages,
     toc |-> toc,
     sampling_points |-> PdfSamplingPoints(total_pages)]

\* analyze_pdf_structure(filepath): only ImportError is caught, so whatever
\* fitz.open / pdfplumber.open raise on a missing, unreadable or corrupt file
\* leaves the function as an exception.
analyze_pdf_structure(filepath, fstate, installed, total_pages, toc) ==
    IF "fitz" \in installed
    THEN IF fstate # "ok"
         THEN [outcome |-> "raised", locals |-> NoLocals, result |-> <<"fitz", fstate>>]
         ELSE [outcome |-> "returned", locals |-> NoLocals,
               result |-> PdfReport(filepath, total_pages, Take(toc, TocCap))]
    ELSE IF "pdfplumber" \in installed
    THEN IF fstate # "ok"
         THEN [outcome |-> "raised", locals |-> NoLocals,
               result |-> <<"pdfplumber", fstate>>]
         ELSE [outcome |-> "returned", locals |-> NoLocals,
               result |-> PdfReport(filepath, total_pages, <<>>)]
    ELSE [outcome |-> "returned", locals |-> NoLocals,
          result |-> [error |-> <<"No PDF library available">>]]

NameShown == 50

\* format_output(analysis): what the human-readable report lists
format_output(a) ==
    IF "error" \in DOMAIN a
    THEN [kind |-> "error", message |-> a.error]
    ELSE LET sp == a.sampling_points
             paged == "total_pages" \in DOMAIN a
             toc == IF "toc" \in DOMAIN a THEN a.toc ELSE <<>>
             hs == IF "headers" \in DOMAIN a THEN a.headers ELSE <<>>
             ss == IF "sections" \in DOMAIN a THEN a.sections ELSE <<>>
         IN  [kind |-> "report",
              file |-> a.filepath,
              format |-> a.format,
              unit |-> IF paged THEN "pages" ELSE "lines",
              toc_lines |-> Take(toc, ShownToc),
              more_toc |-> Max(0, Len(toc) - ShownToc),
              header_lines |-> Take(hs, ShownHeaders),
              more_headers |-> Max(0, Len(hs) - ShownHeaders),
              section_lines |->
                  [i \in 1..Min(Len(ss), ShownSections) |->
                      [start_line |-> ss[i].start_line, end_line |-> ss[i].end_line,
                       line_count |-> ss[i].line_count,
                       name |-> Take(ss[i].name, NameShown)]],
              more_sections |-> Max(0, Len(ss) - ShownSections),
              windows |-> <<sp.beginning, sp.q25, sp.q50, sp.q75, sp.end>>,
              chunk_lines |-> sp.chunks,
              commands |-> IF paged
                           THEN <<sp.beginning, sp.q50, sp.end>>
                           ELSE <<(<<sp.beginning[2]>>), sp.q50,
                                  (<<sp.end[2] - sp.end[1]>>)>>]

\* ------------------------------------------------------------------------
\* The documents the model analyzes
\* ------------------------------------------------------------------------
MdH1 == <<"#", " ", "A">>
MdBare == <<"#", "#">>
TexSection == <<"\\", "s", "e", "c", "t", "i", "o", "n", "{", "S", "}">>
TexBoth == <<"\\", "c", "h", "a", "p", "t", "e", "r", "{", "C", "}",
             "\\", "s", "e", "c", "t", "i", "o", "n", "{", "D", "}">>
BookChapter == <<"C", "h", "a", "p", "t", "e", "r", " ", "1">>
BookNum == <<"1", ".", " ", "I", "n">>
BookDot == <<"1", ".">>
BookSub == <<"1", ".", "2", " ", "x">>
Caps == <<"N", "O", "T", "E">>
Colon == <<"S", "u", "m", ":">>
Prose == <<"t", "e", "x", "t">>
Blank == <<>>

Pool == {MdH1, MdBare, TexSection, TexBoth, BookChapter, BookNum, BookDot,
         BookSub, Caps, Colon, Prose, Blank}

ShortDocs == UNION {[1..n -> Pool] : n \in 1..MaxLines}

\* long documents: a pattern of lines repeated up to a given number of lines
Patterns == {<<MdH1>>, <<Prose, Caps>>, <<TexBoth, Prose>>, <<BookNum, Prose, Prose>>}
LongLengths == {ShownSections + 1, SectionCap + 1, MaxLong}
LongDocs == {[i \in 1..n |-> pat[((i - 1) % Len(pat)) + 1]] :
                pat \in Patterns, n \in LongLengths}

\* one-line documents: every line of up to MaxChars characters over the
\* characters the book patterns tell apart, and over those the plain
\* heuristic tells apart
BookAlphabet == {"1", ".", " ", "A"}
PlainAlphabet == {"A", "b", ":", " "}
CharLines ==
    UNION {[1..n -> BookAlphabet] \cup [1..n -> PlainAlphabet] : n \in 1..MaxChars}

\* one-line documents on both sides of the length limits of the plain heuristic
Repeat(c, n) == [i \in 1..n |-> c]
LimitLines ==
    {Repeat("A", n) : n \in {3, 4, 99, 100}}
        \cup {Repeat(c, n - 1) \o <<":">> : c \in {"A", "b"}, n \in {79, 80}}

OneLineDocs == {<<l>> : l \in CharLines \cup LimitLines}

Hints == Choices \cup {"rst"}
PdfLibs == {{}, {"fitz"}, {"pdfplumber"}, {"fitz", "pdfplumber"}}
TocOf(n) == [i \in 1..n |-> <<1, <<"T">>, i>>]
TocLengths == {0, TocCap + 1}

\* ------------------------------------------------------------------------
\* pdf_extract.py: page ranges and the pages to read
\* ------------------------------------------------------------------------
\* len("\n[TRUNCATED]")
TruncatedMark == 12
\* char_count += len(text) + 100
BannerAllowance == 100
\* the default selection, list(range(1, min(11, total_pages + 1)))
DefaultPages == 10
\* --max-chars, default=10000
DefaultMaxChars == 10000
\* len("[No text extracted]")
NoTextLen == 19

\* ranges_str.split(',')
RECURSIVE SplitComma(_, _)
SplitComma(s, p) ==
    LET at == {i \in p..Len(s) : s[i] = ","}
    IN  IF at = {} THEN <<SubSeq(s, p, Len(s))>>
        ELSE LET q == CHOOSE i \in at : \A j \in at : i <= j
             IN  <<SubSeq(s, p, q - 1)>> \o SplitComma(s, q + 1)

DigitChars == <<"0", "1", "2", "3", "4", "5", "6", "7", "8", "9">>
DigitValue(c) == (CHOOSE i \in 1..10 : DigitChars[i] = c) - 1

RECURSIVE Decimal(_)
Decimal(ds) ==
    IF Len(ds) = 0 THEN 0
    ELSE 10 * Decimal(SubSeq(ds, 1, Len(ds) - 1)) + DigitValue(ds[Len(ds)])

\* int(s): surrounding whitespace is dropped, one sign is allowed, the rest
\* must be decimal digits; anything else raises ValueError
ParseInt(s) ==
    LET t == Strip(s)
        signed == Len(t) > 0 /\ t[1] \in {"+", "-"}
        ds == IF signed THEN Tail(t) ELSE t
    IN  IF Len(ds) > 0 /\ \A i \in 1..Len(ds) : ds[i] \in Digits
        THEN [ok |-> TRUE,
              val |-> IF signed /\ t[1] = "-" THEN 0 - Decimal(ds) ELSE Decimal(ds)]
        ELSE [ok |-> FALSE, val |-> 0]

\* one iteration of the loop of parse_page_ranges: the (start, end) tuples
\* this part appends
ParsePart(raw) ==
    LET part == Strip(raw)
        dash == {i \in 1..Len(part) : part[i] = "-"}
    IN  IF Len(part) = 0 THEN <<>>
        ELSE IF dash # {}
        THEN LET d == CHOOSE i \in dash : \A j \in dash : i <= j
                 start == ParseInt(SubSeq(part, 1, d - 1))
                 end == ParseInt(SubSeq(part, d + 1, Len(part)))
             IN  IF start.ok /\ end.ok THEN << <<start.val, end.val>> >> ELSE <<>>
        ELSE LET page == ParseInt(part)
             IN  IF page.ok THEN << <<page.val, page.val>> >> ELSE <<>>

RECURSIVE ParseParts(_)
ParseParts(parts) ==
    IF Len(parts) = 0 THEN <<>>
    ELSE ParsePart(Head(parts)) \o ParseParts(Tail(parts))

parse_page_ranges(ranges_str) == ParseParts(SplitComma(ranges_str, 1))

\* sorted(S) for a set of integers
Sorted(S) ==
    [i \in 1..Cardinality(S) |-> CHOOSE p \in S : Cardinality({q \in S : q < p}) = i - 1]

\* the selection without the clamp of a range's start at page 1
PagesToReadUnclamped(ranges, total) ==
    IF Len(ranges) > 0
    THEN Sorted(UNION {ranges[i][1]..Min(total, ranges[i][2]) : i \in 1..Len(ranges)})
    ELSE [i \in 1..(Min(DefaultPages + 1, total + 1) - 1) |-> i]

\* "Determine which pages to extract"; an empty list of ranges is falsy, as
\* None is
PagesToRead(ranges, total) ==
    IF Len(ranges) > 0
    THEN Sorted(UNION {Max(1, ranges[i][1])..Min(total, ranges[i][2]) :
                          i \in 1..Len(ranges)})
    ELSE [i \in 1..(Min(DefaultPages + 1, total + 1) - 1) |-> i]

\* ------------------------------------------------------------------------
\* State
\* ------------------------------------------------------------------------
VARIABLES
    suffix,      \* "txt" or "pdf": which analyzer the path is for
    fstate,      \* "ok", "missing", "denied" or "corrupt": what open() will meet
    content,     \* the decoded text of a text file
    installed,   \* the PDF libraries that can be imported
    total_pages, \* number of pages of a PDF
    toc,         \* doc.get_toc() of a PDF
    pc,          \* "start", "parsed", "analyzed", "printed", "raised", "exit1", "exit2"
    format_arg,  \* the format_hint argument
    locals,      \* lines, headers, sections inside analyze_text_structure
    analysis,    \* the dict an analyzer returned
    output       \* what was printed

\* pdf_extract.py
VARIABLES
    pages_arg,     \* args.pages; the empty string stands for an absent --pages too
    max_chars,     \* args.max_chars
    show_info,     \* args.info
    page_text,     \* for each page, the length of the text the library extracts
    page_ranges,   \* the parsed ranges; <<>> stands for None too (both are falsy)
    pages_to_read, \* the sorted list the loop iterates over
    page_idx,      \* position of the for loop in pages_to_read
    char_count,    \* the running count of the loop
    output_lines,  \* one entry per page emitted, and the limit marker
    result,        \* the string main() holds
    reader,        \* the library whose loop is running
    xpc            \* "idle", "start", "pymupdf", "pdfplumber", "loop", "print", "done", "exit1"

extract_vars == <<pages_arg, max_chars, show_info, page_text, page_ranges,
                  pages_to_read, page_idx, char_count, output_lines, result,
                  reader, xpc>>

\* url_fetch.py: HTMLTextExtractor
VARIABLES
    fed,        \* the start-tag, end-tag and data events handled so far
    parser,     \* the HTMLTextExtractor: text_parts, current_tag, skip_depth
    html_text,  \* what get_text() returned
    hpc         \* "idle", "feeding", "done"

html_vars == <<fed, parser, html_text, hpc>>

\* url_fetch.py: main()
VARIABLES
    net,      \* what the fetches will meet: libraries, responses, curl's outcome
    fargs,    \* args.info, args.max_chars, args.start
    calls,    \* the fetch functions main() has called, in order
    fetched,  \* main()'s content
    info,     \* main()'s info
    fpc       \* "idle", "start", "fallback", "fetched", "printed", "raised"

fetch_vars == <<net, fargs, calls, fetched, info, fpc>>

others == <<extract_vars, html_vars, fetch_vars>>

vars == <<suffix, fstate, content, installed, total_pages, toc, pc, format_arg,
          locals, analysis, output, others>>

NoResult == [kind |-> "none"]

\* HTMLTextExtractor.__init__; skip_tags is the definition SkipTags
NewParser == [text_parts |-> <<>>, current_tag |-> "None", skip_depth |-> 0]

HtmlIdle ==
    /\ fed = <<>>
    /\ parser = NewParser
    /\ html_text = <<>>
    /\ hpc = "idle"

FetchIdle ==
    /\ net = <<>>
    /\ fargs = <<>>
    /\ calls = <<>>
    /\ fetched = <<>>
    /\ info = <<>>
    /\ fpc = "idle"

ExtractIdle ==
    /\ pages_arg = <<>>
    /\ max_chars = 0
    /\ show_info = FALSE
    /\ page_text = <<>>
    /\ page_ranges = <<>>
    /\ pages_to_read = <<>>
    /\ page_idx = 0
    /\ char_count = 0
    /\ output_lines = <<>>
    /\ result = NoResult
    /\ reader = "none"
    /\ xpc = "idle"

file == <<suffix, fstate, content, installed, total_pages, toc>>

Filepath == IF suffix = "pdf" THEN "doc.pdf" ELSE "doc.txt"

Init ==
    /\ \/ /\ suffix = "pdf"
          /\ fstate \in {"ok", "missing", "denied", "corrupt"}
          /\ content = <<>>
          /\ installed \in PdfLibs
          /\ IF fstate = "ok"
             THEN total_pages \in 0..MaxPages /\ toc \in {TocOf(n) : n \in TocLengths}
             ELSE total_pages = 0 /\ toc = <<>>
       \/ /\ suffix = "txt"
          /\ \/ fstate = "ok" /\ content \in {Join(d) : d \in ShortDocs \cup LongDocs \cup OneLineDocs}
             \/ fstate \in {"missing", "denied"} /\ content = <<>>
          /\ installed = {}
          /\ total_pages = 0
          /\ toc = <<>>
    /\ pc = "start"
    /\ format_arg = "none"
    /\ locals = NoLocals
    /\ analysis = <<>>
    /\ output = <<>>
    /\ ExtractIdle
    /\ HtmlIdle
    /\ FetchIdle

\* ------------------------------------------------------------------------
\* Actions
\* ------------------------------------------------------------------------
\* main(): argparse rejects a --format outside its choices (exit status 2);
\* a path that does not exist ends the run with exit status 1
main_parse(hint) ==
    /\ pc = "start"
    /\ format_arg' = hint
    /\ pc' = IF hint \notin Choices THEN "exit2"
             ELSE IF fstate = "missing" THEN "exit1"
             ELSE "parsed"
    /\ UNCHANGED <<file, locals, analysis, output, others>>

Finish(r) ==
    /\ pc' = IF r.outcome = "raised" THEN "raised" ELSE "analyzed"
    /\ locals' = r.locals
    /\ analysis' = r.result
    /\ UNCHANGED <<file, output, others>>

\* main() dispatches on the suffix: analyze_text_structure(str(filepath), args.format)
main_analyze_text ==
    /\ pc = "parsed"
    /\ suffix = "txt"
    /\ Finish(analyze_text_structure(Filepath, fstate, content, format_arg))
    /\ UNCHANGED format_arg

\* main() dispatches on the suffix: analyze_pdf_structure(str(filepath))
main_analyze_pdf ==
    /\ pc = "parsed"
    /\ suffix = "pdf"
    /\ Finish(analyze_pdf_structure(Filepath, fstate, installed, total_pages, toc))
    /\ UNCHANGED format_arg

\* analyze_text_structure called as a function, with any format_hint
call_analyze_text(hint) ==
    /\ pc = "start"
    /\ suffix = "txt"
    /\ format_arg' = hint
    /\ Finish(analyze_text_structure(Filepath, fstate, content, hint))

\* analyze_pdf_structure called as a function
call_analyze_pdf ==
    /\ pc = "start"
    /\ suffix = "pdf"
    /\ format_arg' = "none"
    /\ Finish(analyze_pdf_structure(Filepath, fstate, installed, total_pages, toc))

\* print(json.dumps(analysis, indent=2)) or print(format_output(analysis))
print_result(json) ==
    /\ pc = "analyzed"
    /\ output' = IF json THEN [kind |-> "json", value |-> analysis]
                 ELSE format_output(analysis)
    /\ pc' = "printed"
    /\ UNCHANGED <<file, format_arg, locals, analysis, others>>

Next ==
    \/ \E hint \in Hints : main_parse(hint)
    \/ main_analyze_text
    \/ main_analyze_pdf
    \/ \E hint \in Hints : call_analyze_text(hint)
    \/ call_analyze_pdf
    \/ \E json \in BOOLEAN : print_result(json)

Spec == Init /\ [][Next]_vars

\* ------------------------------------------------------------------------
\* Properties
\* ------------------------------------------------------------------------
Returned == pc \in {"analyzed", "printed"}
TextReported == Returned /\ suffix = "txt" /\ "error" \notin DOMAIN analysis
PdfReported == Returned /\ suffix = "pdf" /\ "error" \notin DOMAIN analysis
Reported == TextReported \/ PdfReported
Total == IF suffix = "pdf" THEN analysis.total_pages ELSE analysis.total_lines
NamedWindows == {analysis.sampling_points.beginning, analysis.sampling_points.q25,
                 analysis.sampling_points.q50, analysis.sampling_points.q75,
                 analysis.sampling_points.end}
ChunkList == analysis.sampling_points.chunks

\* C1: for every total >= 1, each of the five named sampling windows
\* (beginning, 25%, 50%, 75%, end) of a text or PDF report satisfies
\* 1 <= start <= end <= total.
C1_WindowsWithinExtent ==
    (Reported /\ Total >= 1) =>
        \A w \in NamedWindows : 1 <= w[1] /\ w[1] <= w[2] /\ w[2] <= Total

\* C2: for every total >= 6 the chunk list starts at 1, is contiguous, and
\* its last chunk ends at total, so that the chunks cover [1, total] exactly.
C2_ChunksCoverExtent ==
    (Reported /\ Total >= ChunkCount) =>
        /\ ChunkList[1][1] = 1
        /\ \A i \in 1..(Len(ChunkList) - 1) : ChunkList[i + 1][1] = ChunkList[i][2] + 1
        /\ ChunkList[Len(ChunkList)][2] = Total
        /\ \A n \in 1..Total :
              Cardinality({i \in 1..Len(ChunkList) :
                              ChunkList[i][1] <= n /\ n <= ChunkList[i][2]}) = 1

\* C3: for 0 <= total < 6 the chunk list is the single window (1, total), for
\* total >= 6 it has exactly 6 windows, and computing the plan never raises:
\* once the input has been read, the analyzer returns a report.
C3_ChunkListShape ==
    /\ Reported =>
          /\ Total >= 0
          /\ Total < 6 => ChunkList = <<(<<1, Total>>)>>
          /\ Total >= 6 => Len(ChunkList) = 6
    /\ (fstate = "ok" /\ (suffix = "txt" \/ installed # {})) => pc # "raised"
    /\ (Returned /\ fstate = "ok" /\ (suffix = "txt" \/ installed # {})) => Reported

C3_Witness ==
    /\ PdfReported /\ Total = 0 /\ ChunkList = <<(<<1, 0>>)>>

\* C4: N headers give exactly N sections (none for no header); section i
\* starts on header i's line, ends one line before section i+1 starts, its
\* line_count is end_line - start_line + 1, and the last section ends at
\* total_lines.
C4_SectionsFollowHeaders ==
    TextReported =>
        LET hs == locals.headers
            ss == locals.sections
        IN  /\ Len(ss) = Len(hs)
            /\ \A i \in 1..Len(ss) :
                  /\ ss[i].start_line = hs[i].line
                  /\ ss[i].line_count = ss[i].end_line - ss[i].start_line + 1
                  /\ i < Len(ss) => ss[i].end_line + 1 = ss[i + 1].start_line
                  /\ i = Len(ss) => ss[i].end_line = analysis.total_lines

C4_Witness ==
    /\ TextReported
    /\ Len(locals.sections) >= 2
    /\ locals.headers[Len(locals.headers)].line < analysis.total_lines

SectionsHolding(n) ==
    {i \in 1..Len(locals.sections) :
        locals.sections[i].start_line <= n /\ n <= locals.sections[i].end_line}

\* C5 (as claimed): whenever a header is found, every line of 1..total_lines
\* lies in exactly one section and every section is non-empty.
C5_SectionsPartitionDocument ==
    (TextReported /\ Len(locals.headers) > 0) =>
        /\ \A n \in 1..analysis.total_lines : Cardinality(SectionsHolding(n)) = 1
        /\ \A i \in 1..Len(locals.sections) :
              locals.sections[i].start_line <= locals.sections[i].end_line

\* C5 (amended): whenever a header is found, the sections partition the lines
\* from the first header's line to total_lines; the lines before the first
\* header lie in no section; a section is empty only when the next header is
\* on the same line, which only the latex rules produce.
C5_SectionsPartitionFromFirstHeader ==
    (TextReported /\ Len(locals.headers) > 0) =>
        /\ \A n \in 1..analysis.total_lines :
              Cardinality(SectionsHolding(n)) =
                  IF n >= locals.headers[1].line THEN 1 ELSE 0
        /\ \A i \in 1..Len(locals.sections) :
              /\ locals.sections[i].start_line <= locals.sections[i].end_line + 1
              /\ analysis.format # "latex" =>
                    locals.sections[i].start_line <= locals.sections[i].end_line

C5_Witness ==
    /\ TextReported
    /\ Len(locals.headers) >= 2
    /\ locals.headers[1].line > 1
    /\ analysis.format # "latex"

\* C6 (as claimed): for every format the headers are ascending by line with
\* at most one header per physical line.
C6_OneHeaderPerLine ==
    TextReported =>
        \A i \in 1..(Len(locals.headers) - 1) :
            locals.headers[i].line < locals.headers[i + 1].line

\* C6 (amended): for every format the headers are in non-decreasing line
\* order; markdown, book and plain give at most one header per line; latex
\* gives at most one header per pattern per line, in the order chapter,
\* section, subsection.
C6_HeadersOrdered ==
    TextReported =>
        \A i \in 1..(Len(locals.headers) - 1) :
            /\ locals.headers[i].line <= locals.headers[i + 1].line
            /\ locals.headers[i].line = locals.headers[i + 1].line =>
                  /\ analysis.format = "latex"
                  /\ locals.headers[i].level < locals.headers[i + 1].level

C6_Witness ==
    /\ TextReported
    /\ analysis.format = "latex"
    /\ \E i \in 1..(Len(locals.headers) - 1) :
          locals.headers[i].line = locals.headers[i + 1].line
    /\ \E i \in 1..(Len(locals.headers) - 1) :
          locals.headers[i].line < locals.headers[i + 1].line

\* line i together with the line break that ends it, if any
PhysicalLine(lines, i) == lines[i] \o (IF i < Len(lines) THEN <<"\n">> ELSE <<>>)

\* the format the probes give when each is tried on the lines one at a time
DetectByLines(lines) ==
    IF \E i \in 1..Len(lines) : MarkdownProbe(PhysicalLine(lines, i)) THEN "markdown"
    ELSE IF \E i \in 1..Len(lines) : LatexProbe(PhysicalLine(lines, i)) THEN "latex"
    ELSE IF \E i \in 1..Len(lines) : BookProbe(PhysicalLine(lines, i)) THEN "book"
    ELSE "plain"

\* C7: with format hint 'auto' the detected format is markdown if any line
\* matches the markdown probe, otherwise latex if any line matches the
\* section/chapter/title probe, otherwise book if any line matches the
\* Chapter / CHAPTER / 'N. Capital' probe, otherwise plain.
C7_DetectionByLinePriority ==
    (TextReported /\ format_arg = "auto") =>
        analysis.format = DetectByLines(locals.lines)

\* C8: analyze_text_structure called with a format hint outside auto,
\* markdown, latex, book, plain ends in an error, not in a normal report.
C8_UnknownHintFails ==
    (suffix = "txt" /\ format_arg \notin Choices \cup {"none"}
        /\ pc \in {"analyzed", "printed", "raised"}) =>
        (pc = "raised" \/ "error" \in DOMAIN analysis)

\* the input cannot be opened or read
Unreadable ==
    \/ fstate # "ok"
    \/ suffix = "pdf" /\ installed = {}

\* C9: whenever the input cannot be opened or read, the analyzer returns a
\* single error result (no exception leaves it), and format_output renders
\* that result as the one ERROR line.
C9_UnreadableInputIsErrorResult ==
    (Unreadable /\ pc \in {"analyzed", "printed", "raised"}) =>
        /\ pc # "raised"
        /\ DOMAIN analysis = {"error"}
        /\ (pc = "printed" /\ output.kind # "json") =>
              output = [kind |-> "error", message |-> analysis.error]

\* C10: the report's headers are the first min(N, 50) of the N headers found,
\* its sections are the first min(N, 30) of the sections of all N headers
\* (each retained section ends one line before the next header of the full
\* list, or at total_lines), and the printed report lists at most 15 sections.
C10_TruncationAfterComputation ==
    TextReported =>
        LET hs == locals.headers
            N == Len(hs)
        IN  /\ Len(analysis.headers) = Min(N, 50)
            /\ \A i \in 1..Len(analysis.headers) : analysis.headers[i] = hs[i]
            /\ Len(analysis.sections) = Min(N, 30)
            /\ \A i \in 1..Len(analysis.sections) :
                  /\ analysis.sections[i].name = hs[i].text
                  /\ analysis.sections[i].start_line = hs[i].line
                  /\ analysis.sections[i].end_line =
                        IF i < N THEN hs[i + 1].line - 1 ELSE analysis.total_lines
            /\ (pc = "printed" /\ output.kind = "report") =>
                  /\ Len(output.section_lines) = Min(N, 15)
                  /\ \A i \in 1..Len(output.section_lines) :
                        /\ output.section_lines[i].start_line = hs[i].line
                        /\ output.section_lines[i].end_line =
                              analysis.sections[i].end_line

C10_Witness ==
    /\ TextReported
    /\ pc = "printed"
    /\ output.kind = "report"
    /\ Len(locals.headers) > 50
    /\ Len(analysis.headers) = 50
    /\ Len(analysis.sections) = 30
    /\ Len(output.section_lines) = 15
    /\ analysis.sections[30].end_line < analysis.total_lines

\* the headers found on line i
HeadersOnLine(i) == SelectSeq(locals.headers, LAMBDA h : h.line = i)

\* the line qualifies by the upper-case rule of the plain heuristic
QualifiesUpper(t) == IsUpperStr(t) /\ Len(t) >= 4 /\ Len(t) <= 99

\* the line qualifies by the colon rule of the plain heuristic
QualifiesColon(t) ==
    /\ Len(t) >= 1
    /\ Len(t) < 80
    /\ t[Len(t)] = ":"
    /\ IsAlphaStr(RemoveSpaces(SubSeq(t, 1, Len(t) - 1)))

\* C11: in the plain variant a non-empty trimmed line becomes a header iff it
\* is upper-case with length in [4, 99] or ends with ':' with length < 80 and
\* alphabetic text before the colon; the level is 1 exactly when the line
\* qualifies by the upper-case rule and 2 when it qualifies by the colon
\* rule; the trailing colon is stripped from the text of level-2 headers.
C11_PlainHeaderLevels ==
    (TextReported /\ analysis.format = "plain") =>
        \A i \in 1..Len(locals.lines) :
            LET t == Strip(locals.lines[i])
                hs == HeadersOnLine(i)
            IN  /\ Len(hs) = IF QualifiesUpper(t) \/ QualifiesColon(t) THEN 1 ELSE 0
                /\ Len(hs) = 1 =>
                      /\ hs[1].level = IF QualifiesUpper(t) THEN 1 ELSE 2
                      /\ hs[1].level = 2 => hs[1].text = SubSeq(t, 1, Len(t) - 1)

\* which book patterns the trimmed line matches
MatchesChapter(t) == BookChapterMatch(0, t) # <<>>
MatchesNumbered(t) == BookNumberedMatch(0, t) # <<>>
MatchesDotted(t) == BookDottedMatch(0, t) # <<>>

MaxParts == 2

PartPool == {<<"1", "-", "3">>, <<"3", "-", "1">>, <<"0", "-", "2">>,
             <<"2", "-", "9", "9">>, <<"x">>, <<" ", "1", "2", " ">>}

RECURSIVE JoinComma(_)
JoinComma(parts) ==
    IF Len(parts) = 0 THEN <<>>
    ELSE IF Len(parts) = 1 THEN parts[1]
    ELSE parts[1] \o <<",">> \o JoinComma(Tail(parts))

PagesArgs == {JoinComma(ps) : ps \in UNION {[1..n -> PartPool] : n \in 0..MaxParts}}
MaxCharsArgs == {-1, 0, 150, 250, DefaultMaxChars}
ExtractTotals == 0..3 \cup {DefaultPages + 1, DefaultPages + 2}
PageTexts(total) ==
    {[p \in 1..total |-> n] : n \in {0, 60, 200, 5000}}
        \cup {[p \in 1..total |-> IF p % 2 = 1 THEN 200 ELSE 0]}

DocIdle ==
    /\ pc = "idle"
    /\ format_arg = "none"
    /\ locals = NoLocals
    /\ analysis = <<>>
    /\ output = <<>>

InitExtract ==
    /\ suffix = "pdf"
    /\ fstate \in {"ok", "missing", "denied", "corrupt"}
    /\ content = <<>>
    /\ installed \in PdfLibs
    /\ toc = <<>>
    /\ IF fstate = "ok" THEN total_pages \in ExtractTotals ELSE total_pages = 0
    /\ DocIdle
    /\ HtmlIdle
    /\ FetchIdle
    /\ pages_arg \in PagesArgs
    /\ max_chars \in MaxCharsArgs
    /\ show_info \in BOOLEAN
    /\ page_text \in PageTexts(total_pages)
    /\ page_ranges = <<>>
    /\ pages_to_read = <<>>
    /\ page_idx = 0
    /\ char_count = 0
    /\ output_lines = <<>>
    /\ result = NoResult
    /\ reader = "none"
    /\ xpc = "start"

doc_vars == <<pc, format_arg, locals, analysis>>
extract_args == <<pages_arg, max_chars, show_info, page_text>>

\* main(): the path must exist; --pages is parsed when it is given
extract_main ==
    /\ xpc = "start"
    /\ IF fstate = "missing"
       THEN xpc' = "exit1" /\ UNCHANGED page_ranges
       ELSE /\ page_ranges' = IF Len(pages_arg) > 0 THEN parse_page_ranges(pages_arg)
                              ELSE <<>>
            /\ xpc' = "pymupdf"
    /\ UNCHANGED <<file, doc_vars, html_vars, fetch_vars, output, extract_args, pages_to_read, page_idx,
                   char_count, output_lines, result, reader>>

\* extract_with_pymupdf / extract_with_pdfplumber up to the page loop, and
\* main()'s test of the result for the fallback
extract_open(lib) ==
    /\ xpc = IF lib = "fitz" THEN "pymupdf" ELSE "pdfplumber"
    /\ IF lib \notin installed
       THEN /\ result' = [kind |-> "error", text |-> "not installed", lib |-> lib]
            /\ xpc' = IF lib = "fitz" THEN "pdfplumber" ELSE "print"
            /\ UNCHANGED <<pages_to_read, page_idx, char_count, output_lines, reader>>
       ELSE IF fstate # "ok"
       THEN /\ result' = [kind |-> "error", text |-> "Could not open PDF", lib |-> lib]
            /\ xpc' = "print"
            /\ UNCHANGED <<pages_to_read, page_idx, char_count, output_lines, reader>>
       ELSE IF show_info
       THEN /\ result' = [kind |-> "info", total_pages |-> total_pages, lib |-> lib]
            /\ xpc' = "print"
            /\ UNCHANGED <<pages_to_read, page_idx, char_count, output_lines, reader>>
       ELSE /\ pages_to_read' = PagesToRead(page_ranges, total_pages)
            /\ output_lines' = <<>>
            /\ char_count' = 0
            /\ page_idx' = 1
            /\ reader' = lib
            /\ xpc' = "loop"
            /\ UNCHANGED result
    /\ UNCHANGED <<file, doc_vars, html_vars, fetch_vars, output, extract_args, page_ranges>>

\* the iteration without the cut at remaining_chars
extract_page_uncut ==
    /\ xpc = "loop"
    /\ page_idx <= Len(pages_to_read)
    /\ char_count < max_chars
    /\ LET page_num == pages_to_read[page_idx]
           text == IF reader = "pdfplumber" /\ page_text[page_num] = 0
                   THEN NoTextLen ELSE page_text[page_num]
       IN  /\ output_lines' = Append(output_lines,
                                     [kind |-> "page", page_num |-> page_num,
                                      chars |-> text, truncated |-> FALSE])
           /\ char_count' = char_count + text + BannerAllowance
           /\ page_idx' = page_idx + 1
           /\ UNCHANGED <<result, xpc>>
    /\ UNCHANGED <<file, doc_vars, html_vars, fetch_vars, output, extract_args, page_ranges, pages_to_read,
                   reader>>

\* one iteration of "for page_num in pages_to_read" that does not break
extract_page ==
    /\ xpc = "loop"
    /\ page_idx <= Len(pages_to_read)
    /\ char_count < max_chars
    /\ LET page_num == pages_to_read[page_idx]
           text == IF reader = "pdfplumber" /\ page_text[page_num] = 0
                   THEN NoTextLen ELSE page_text[page_num]
           remaining_chars == max_chars - char_count
           cut == text > remaining_chars
           emitted == IF cut THEN remaining_chars + TruncatedMark ELSE text
       IN  IF page_num \notin 1..total_pages
           THEN /\ result' = [kind |-> "error", text |-> "Could not open PDF",
                              lib |-> reader]
                /\ xpc' = "print"
                /\ UNCHANGED <<output_lines, char_count, page_idx>>
           ELSE /\ output_lines' = Append(output_lines,
                                          [kind |-> "page", page_num |-> page_num,
                                           chars |-> emitted, truncated |-> cut])
                /\ char_count' = char_count + emitted + BannerAllowance
                /\ page_idx' = page_idx + 1
                /\ UNCHANGED <<result, xpc>>
    /\ UNCHANGED <<file, doc_vars, html_vars, fetch_vars, output, extract_args, page_ranges, pages_to_read,
                   reader>>

\* the loop ends, by exhaustion or by the break at the output limit; the
\* summary is added and the function returns
extract_summary ==
    /\ xpc = "loop"
    /\ page_idx > Len(pages_to_read) \/ char_count >= max_chars
    /\ output_lines' = IF page_idx <= Len(pages_to_read)
                       THEN Append(output_lines,
                                   [kind |-> "limit", page_num |-> 0,
                                    chars |-> 0, truncated |-> FALSE])
                       ELSE output_lines
    /\ result' = [kind |-> "extraction", lines |-> output_lines',
                  pages |-> pages_to_read, count |-> char_count, lib |-> reader]
    /\ xpc' = "print"
    /\ UNCHANGED <<file, doc_vars, html_vars, fetch_vars, output, extract_args, page_ranges, pages_to_read,
                   page_idx, char_count, reader>>

\* print(result)
extract_print ==
    /\ xpc = "print"
    /\ output' = result
    /\ xpc' = "done"
    /\ UNCHANGED <<file, doc_vars, html_vars, fetch_vars, extract_args, page_ranges, pages_to_read,
                   page_idx, char_count, output_lines, result, reader>>

NextExtract ==
    \/ extract_main
    \/ \E lib \in {"fitz", "pdfplumber"} : extract_open(lib)
    \/ extract_page
    \/ extract_summary
    \/ extract_print

SpecExtract == InitExtract /\ [][NextExtract]_vars

\* ------------------------------------------------------------------------
\* Properties of the PDF extraction
\* ------------------------------------------------------------------------
InLoop == reader # "none"
Extracted == xpc \in {"print", "done"} /\ result.kind = "extraction"
PageEntries(ls) == SelectSeq(ls, LAMBDA e : e.kind = "page")

\* page-text characters emitted: the marker appended to a cut text is not
\* page text
RECURSIVE TextChars(_)
TextChars(ls) ==
    IF Len(ls) = 0 THEN 0
    ELSE LET e == ls[Len(ls)]
         IN  TextChars(SubSeq(ls, 1, Len(ls) - 1))
                 + (IF e.kind # "page" THEN 0
                    ELSE IF e.truncated THEN e.chars - TruncatedMark
                    ELSE e.chars)

\* what the running count is after the pages in ls
RECURSIVE Counted(_)
Counted(ls) ==
    IF Len(ls) = 0 THEN 0
    ELSE Counted(SubSeq(ls, 1, Len(ls) - 1))
             + (IF ls[Len(ls)].kind = "page" THEN ls[Len(ls)].chars + BannerAllowance
                ELSE 0)

\* no page is read or emitted once the running count has reached max_chars:
\* before each page that was emitted the count was still below max_chars
NoPageAfterLimit ==
    \A k \in 1..Len(output_lines) :
        output_lines[k].kind = "page"
            => Counted(SubSeq(output_lines, 1, k - 1)) < max_chars

\* C14 (as claimed): in the extraction loop, for any list of pages, any page
\* text lengths and any max_chars, the page-text characters emitted never
\* exceed max_chars, and once char_count has reached max_chars no further
\* page is read or emitted.
C14_EmittedWithinMaxChars ==
    InLoop => /\ TextChars(output_lines) <= max_chars
              /\ NoPageAfterLimit

\* C14 (amended): the page-text characters emitted never exceed
\* max(max_chars, 0) -- with a negative max_chars nothing is emitted -- and
\* once char_count has reached max_chars no further page is read or emitted.
C14_EmittedWithinNonNegativeLimit ==
    InLoop => /\ TextChars(output_lines) <= Max(max_chars, 0)
              /\ char_count = Counted(output_lines)
              /\ NoPageAfterLimit

\* a text was cut at the limit, the emitted page text fills max_chars
\* exactly, and the loop then stopped at the limit with pages left over
C14_Witness ==
    /\ Extracted
    /\ max_chars > 0
    /\ TextChars(output_lines) = max_chars
    /\ \E k \in 1..Len(output_lines) : output_lines[k].truncated
    /\ output_lines[Len(output_lines)].kind = "limit"

\* the page numbers read so far, in the order they were read
PagesRead == [k \in 1..Len(PageEntries(output_lines)) |->
                 PageEntries(output_lines)[k].page_num]

\* the pages asked for: those of the document inside some requested range,
\* or the first ten when no range is given
Requested ==
    IF Len(page_ranges) > 0
    THEN {p \in 1..total_pages :
             \E i \in 1..Len(page_ranges) :
                 page_ranges[i][1] <= p /\ p <= page_ranges[i][2]}
    ELSE {p \in 1..total_pages : p <= DefaultPages}

ReadInRangeAscending ==
    /\ \A k \in 1..Len(PagesRead) : 1 <= PagesRead[k] /\ PagesRead[k] <= total_pages
    /\ \A k \in 1..(Len(PagesRead) - 1) : PagesRead[k] < PagesRead[k + 1]

\* C16 (as claimed): every page read satisfies 1 <= p <= total_pages, pages
\* are read in strictly ascending order with none read twice, and the set
\* read is exactly the union of the requested ranges intersected with
\* [1, total_pages], or 1..min(10, total_pages) when no ranges are given.
C16_ReadExactlyRequested ==
    /\ InLoop => ReadInRangeAscending
    /\ Extracted => {PagesRead[k] : k \in 1..Len(PagesRead)} = Requested

\* C16 (amended): the pages selected for reading are exactly the requested
\* ones, in strictly ascending order; the pages read are an initial segment
\* of that selection, all inside 1..total_pages, and the segment is the whole
\* selection unless the loop stopped at the output limit.
C16_ReadPrefixOfRequested ==
    InLoop =>
        /\ ReadInRangeAscending
        /\ {pages_to_read[k] : k \in 1..Len(pages_to_read)} = Requested
        /\ \A k \in 1..(Len(pages_to_read) - 1) : pages_to_read[k] < pages_to_read[k + 1]
        /\ Len(PagesRead) <= Len(pages_to_read)
        /\ PagesRead = SubSeq(pages_to_read, 1, Len(PagesRead))
        /\ Extracted =>
               \/ PagesRead = pages_to_read
               \/ /\ char_count >= max_chars
                  /\ output_lines[Len(output_lines)].kind = "limit"

\* overlapping ranges, one reaching below page 1 and one beyond the last
\* page, were given and every selected page was read
C16_Witness ==
    /\ Extracted
    /\ Len(page_ranges) = 2
    /\ \E i \in 1..2 : page_ranges[i][1] <= 0
    /\ \E i \in 1..2 : page_ranges[i][2] > total_pages
    /\ Len(PagesRead) = 3
    /\ PagesRead = pages_to_read

\* ------------------------------------------------------------------------
\* url_fetch.py: HTMLTextExtractor
\* ------------------------------------------------------------------------
MaxEvents == 4

SkipTags == {"script", "style", "head", "meta", "link"}
BreakBefore == {"p", "div", "br", "h1", "h2", "h3", "h4", "h5", "h6", "li", "tr"}
BreakAfter == {"p", "div", "h1", "h2", "h3", "h4", "h5", "h6"}
Newline == <<"\n">>

handle_starttag(self, tag) ==
    [self EXCEPT
        !.skip_depth = IF tag \in SkipTags THEN @ + 1 ELSE @,
        !.current_tag = tag,
        !.text_parts = IF tag \in BreakBefore THEN Append(@, Newline) ELSE @]

handle_endtag(self, tag) ==
    [self EXCEPT
        !.skip_depth = IF tag \in SkipTags /\ @ > 0 THEN @ - 1 ELSE @,
        !.text_parts = IF tag \in BreakAfter THEN Append(@, Newline) ELSE @]

\* HTMLParser's default for <tag/>: the start handler, then the end handler
handle_startendtag(self, tag) == handle_endtag(handle_starttag(self, tag), tag)

handle_data(self, data) ==
    [self EXCEPT !.text_parts = IF self.skip_depth = 0 THEN Append(@, data) ELSE @]

\* ''.join(parts)
RECURSIVE Concat(_)
Concat(parts) == IF Len(parts) = 0 THEN <<>> ELSE Head(parts) \o Concat(Tail(parts))

\* re.sub of a run of at least least characters c by keep of them
RECURSIVE Collapse(_, _, _, _, _)
Collapse(s, p, c, least, keep) ==
    IF p > Len(s) THEN <<>>
    ELSE LET n == Run(s, p, {c})
         IN  IF n >= least
             THEN [i \in 1..keep |-> c] \o Collapse(s, p + n, c, least, keep)
             ELSE <<s[p]>> \o Collapse(s, p + 1, c, least, keep)

get_text(self) ==
    LET joined == Concat(self.text_parts)
        lines == Collapse(joined, 1, "\n", 3, 2)
        spaces == Collapse(lines, 1, " ", 2, 1)
    IN  Strip(spaces)

HandleEvent(self, e) ==
    IF e.type = "start" THEN handle_starttag(self, e.arg)
    ELSE IF e.type = "end" THEN handle_endtag(self, e.arg)
    ELSE IF e.type = "startend" THEN handle_startendtag(self, e.arg)
    ELSE handle_data(self, e.arg)

\* parser.feed(html), for an html the library splits into these events
RECURSIVE Feed(_, _)
Feed(self, events) ==
    IF Len(events) = 0 THEN self
    ELSE Feed(HandleEvent(self, Head(events)), Tail(events))

HtmlTags == {"head", "meta", "link", "script", "p"}
VoidTags == {"meta"}
HtmlData == {<<"H", "i">>, <<"a", " ", " ", "b", " ">>}

InitHtml ==
    /\ suffix = "txt"
    /\ fstate = "ok"
    /\ content = <<>>
    /\ installed = {}
    /\ total_pages = 0
    /\ toc = <<>>
    /\ DocIdle
    /\ ExtractIdle
    /\ FetchIdle
    /\ fed = <<>>
    /\ parser = NewParser
    /\ html_text = <<>>
    /\ hpc = "feeding"

html_starttag(tag) ==
    /\ hpc = "feeding"
    /\ Len(fed) < MaxEvents
    /\ fed' = Append(fed, [type |-> "start", arg |-> tag])
    /\ parser' = handle_starttag(parser, tag)
    /\ UNCHANGED <<file, doc_vars, output, extract_vars, fetch_vars, html_text, hpc>>

html_endtag(tag) ==
    /\ hpc = "feeding"
    /\ Len(fed) < MaxEvents
    /\ fed' = Append(fed, [type |-> "end", arg |-> tag])
    /\ parser' = handle_endtag(parser, tag)
    /\ UNCHANGED <<file, doc_vars, output, extract_vars, fetch_vars, html_text, hpc>>

html_startendtag(tag) ==
    /\ hpc = "feeding"
    /\ Len(fed) < MaxEvents
    /\ fed' = Append(fed, [type |-> "startend", arg |-> tag])
    /\ parser' = handle_startendtag(parser, tag)
    /\ UNCHANGED <<file, doc_vars, output, extract_vars, fetch_vars, html_text, hpc>>

html_data(data) ==
    /\ hpc = "feeding"
    /\ Len(fed) < MaxEvents
    /\ fed' = Append(fed, [type |-> "data", arg |-> data])
    /\ parser' = handle_data(parser, data)
    /\ UNCHANGED <<file, doc_vars, output, extract_vars, fetch_vars, html_text, hpc>>

\* parser.get_text(), after the whole input was fed
html_get_text ==
    /\ hpc = "feeding"
    /\ html_text' = get_text(parser)
    /\ hpc' = "done"
    /\ UNCHANGED <<file, doc_vars, output, extract_vars, fetch_vars, fed, parser>>

NextHtml ==
    \/ \E tag \in HtmlTags : html_starttag(tag)
    \/ \E tag \in HtmlTags : html_endtag(tag)
    \/ \E tag \in VoidTags : html_startendtag(tag)
    \/ \E data \in HtmlData : html_data(data)
    \/ html_get_text

SpecHtml == InitHtml /\ [][NextHtml]_vars

\* ------------------------------------------------------------------------
\* Properties of HTMLTextExtractor
\* ------------------------------------------------------------------------
Enclosing == {"script", "style", "head"}

\* how many elements named tag are open after the events evs: a start tag
\* opens one, an end tag closes one that is open, <tag/> opens none
RECURSIVE OpenCount(_, _)
OpenCount(evs, tag) ==
    IF Len(evs) = 0 THEN 0
    ELSE LET e == evs[Len(evs)]
             before == OpenCount(SubSeq(evs, 1, Len(evs) - 1), tag)
         IN  IF e.type = "data" \/ e.arg # tag THEN before
             ELSE IF e.type = "start" THEN before + 1
             ELSE IF e.type = "end" /\ before > 0 THEN before - 1
             ELSE before

Enclosed(evs) == \E tag \in Enclosing : OpenCount(evs, tag) > 0

\* the character data that arrived outside every open script/style/head
RECURSIVE DataOutside(_)
DataOutside(evs) ==
    IF Len(evs) = 0 THEN <<>>
    ELSE LET e == evs[Len(evs)]
             before == SubSeq(evs, 1, Len(evs) - 1)
         IN  IF e.type = "data" /\ ~Enclosed(before)
             THEN Append(DataOutside(before), e.arg)
             ELSE DataOutside(before)

DataParts == SelectSeq(parser.text_parts, LAMBDA part : part # Newline)

\* C15: over any sequence of start-tag, end-tag and data events, skip_depth
\* never becomes negative, and character data is appended to the output
\* exactly when it is not enclosed in an open script/style/head element; in
\* particular body text after <head> ... <meta> ... </head> is emitted.
C15_DataOutsideSkippedElementsIsKept ==
    hpc # "idle" =>
        /\ parser.skip_depth >= 0
        /\ DataParts = DataOutside(fed)

\* ------------------------------------------------------------------------
\* url_fetch.py: html_to_text, fetch_with_requests, fetch_with_curl
\* ------------------------------------------------------------------------
\* content.lower()[:1000]
SniffLength == 1000

UpperLetters ==
    <<"A", "B", "C", "D", "E", "F", "G", "H", "I", "J", "K", "L", "M", "N",
      "O", "P", "Q", "R", "S", "T", "U", "V", "W", "X", "Y", "Z">>
LowerLetters ==
    <<"a", "b", "c", "d", "e", "f", "g", "h", "i", "j", "k", "l", "m", "n",
      "o", "p", "q", "r", "s", "t", "u", "v", "w", "x", "y", "z">>

\* str.lower()
LowerChar(c) ==
    IF \E i \in 1..26 : UpperLetters[i] = c
    THEN LowerLetters[CHOOSE i \in 1..26 : UpperLetters[i] = c]
    ELSE c
ToLower(s) == [i \in 1..Len(s) |-> LowerChar(s[i])]

\* w in s
Contains(s, w) == \E q \in 1..Len(s) : HasPrefixAt(s, q, w)

\* str(n)
RECURSIVE DecimalChars(_)
DecimalChars(n) ==
    IF n < 0 THEN <<"-">> \o DecimalChars(0 - n)
    ELSE IF n < 10 THEN <<DigitChars[n + 1]>>
    ELSE DecimalChars(n \div 10) \o <<DigitChars[(n % 10) + 1]>>

WordHtml == <<"h", "t", "m", "l">>
OpenHtml == <<"<", "h", "t", "m", "l">>
TruncatedHead ==
    <<"\n", "\n", "[", "O", "U", "T", "P", "U", "T", " ", "T", "R", "U", "N",
      "C", "A", "T", "E", "D", " ", "a", "t", " ">>
TruncatedTail == <<" ", "c", "h", "a", "r", "s", "]">>
CurlFailed ==
    <<"E", "R", "R", "O", "R", ":", " ", "c", "u", "r", "l", " ", "f", "a",
      "i", "l", "e", "d", " ", "w", "i", "t", "h", " ", "c", "o", "d", "e",
      " ">>
TimedOut ==
    <<"E", "R", "R", "O", "R", ":", " ", "R", "e", "q", "u", "e", "s", "t",
      " ", "t", "i", "m", "e", "d", " ", "o", "u", "t">>
CurlNotFound ==
    <<"E", "R", "R", "O", "R", ":", " ", "c", "u", "r", "l", " ", "n", "o",
      "t", " ", "f", "o", "u", "n", "d">>

TagText ==
    [html |-> <<"h", "t", "m", "l">>, head |-> <<"h", "e", "a", "d">>,
     meta |-> <<"m", "e", "t", "a">>, p |-> <<"p">>]

\* the text of a response that the library splits into the events body
RawEvent(e) ==
    IF e.type = "start" THEN <<"<">> \o TagText[e.arg] \o <<">">>
    ELSE IF e.type = "end" THEN <<"<", "/">> \o TagText[e.arg] \o <<">">>
    ELSE IF e.type = "startend" THEN <<"<">> \o TagText[e.arg] \o <<"/", ">">>
    ELSE e.arg

RECURSIVE Raw(_)
Raw(body) == IF Len(body) = 0 THEN <<>> ELSE RawEvent(Head(body)) \o Raw(Tail(body))

\* html_to_text(html) where bs4 cannot be imported: the HTMLTextExtractor is
\* fed and asked for its text
html_to_text(body) == get_text(Feed(NewParser, body))

\* "Apply limits": content[start:] when start > 0, then the cut at max_chars
ApplyLimits(text, max, start) ==
    LET sliced == IF start > 0 THEN SubSeq(text, start + 1, Len(text)) ELSE text
        cut == Len(sliced) > max
    IN  [content |-> IF cut
                     THEN Take(sliced, max) \o TruncatedHead \o DecimalChars(max)
                              \o TruncatedTail
                     ELSE sliced,
         sliced |-> start > 0,
         cut |-> cut]

\* the optional keys of info
WithLimits(d, converted, limited, start) ==
    LET a == IF converted THEN d @@ [converted |-> "HTML to text"] ELSE d
        b == IF limited.sliced THEN a @@ [start_offset |-> start] ELSE a
    IN  IF limited.cut THEN b @@ [truncated |-> TRUE] ELSE b

NoFetch == [raised |-> "no", content |-> <<>>, info |-> <<>>]

\* fetch_with_requests(url, max_chars, start): raises ImportError without the
\* library, and whatever requests.head, requests.get or raise_for_status raise
fetch_with_requests(env, url, max, start) ==
    IF ~env.requests THEN [NoFetch EXCEPT !.raised = "ImportError"]
    ELSE IF env.head # "ok" THEN [NoFetch EXCEPT !.raised = "Exception"]
    ELSE IF env.get # "ok" THEN [NoFetch EXCEPT !.raised = "Exception"]
    ELSE LET text == Raw(env.req_body)
             converted == Contains(ToLower(env.content_type), WordHtml)
             limited == ApplyLimits(IF converted THEN html_to_text(env.req_body)
                                    ELSE text, max, start)
         IN  [raised |-> "no",
              content |-> limited.content,
              info |-> WithLimits([url |-> url,
                                   status |-> env.status,
                                   content_type |-> env.content_type,
                                   content_length |-> env.content_length,
                                   actual_length |-> Len(text)],
                                  converted, limited, start)]

\* fetch_with_curl(url, max_chars, start): a failure of curl is returned as
\* content; only an exception other than TimeoutExpired and FileNotFoundError
\* leaves the function
fetch_with_curl(env, url, max, start) ==
    LET info0 == [url |-> url, method |-> "curl"]
    IN  IF env.curl = "raise" THEN [NoFetch EXCEPT !.raised = "Exception"]
        ELSE IF env.curl = "notfound"
        THEN [raised |-> "no", content |-> CurlNotFound, info |-> info0]
        ELSE IF env.curl = "timeout"
        THEN [raised |-> "no", content |-> TimedOut, info |-> info0]
        ELSE IF env.curl = "failed"
        THEN [raised |-> "no", content |-> CurlFailed \o DecimalChars(env.returncode),
              info |-> info0]
        ELSE LET text == Raw(env.curl_body)
                 converted == Contains(Take(ToLower(text), SniffLength), OpenHtml)
                 limited == ApplyLimits(IF converted THEN html_to_text(env.curl_body)
                                        ELSE text, max, start)
             IN  [raised |-> "no",
                  content |-> limited.content,
                  info |-> WithLimits(info0 @@ [actual_length |-> Len(text)],
                                      converted, limited, start)]

\* ------------------------------------------------------------------------
\* url_fetch.py: main()
\* ------------------------------------------------------------------------
Url == "https://example.com"

Ev(type, arg) == [type |-> type, arg |-> arg]
PlainBody == <<Ev("data", <<"H", "e", "l", "l", "o", " ", "y", "o", "u">>)>>
HtmlBody == <<Ev("start", "html"), Ev("start", "p"), Ev("data", <<"H", "i", " ", " ", "a", "l", "l">>),
              Ev("end", "p"), Ev("end", "html")>>
HeadBody == <<Ev("start", "html"), Ev("start", "head"), Ev("startend", "meta"),
              Ev("end", "head"), Ev("data", <<"B", "y", "e">>), Ev("end", "html")>>
Bodies == {PlainBody, HtmlBody, HeadBody}

TextHtml == <<"t", "e", "x", "t", "/", "H", "T", "M", "L", ";", " ", "c", "h", "a", "r", "s", "e", "t", "=", "u", "t", "f", "-", "8">>
TextPlain == <<"t", "e", "x", "t", "/", "p", "l", "a", "i", "n">>
Unknown == <<"u", "n", "k", "n", "o", "w", "n">>

Nets ==
    {[requests |-> r, head |-> h, get |-> g,
      status |-> IF g = "http_error" THEN 404 ELSE 200,
      content_type |-> t, content_length |-> l, req_body |-> rb,
      curl |-> c, returncode |-> IF c = "failed" THEN 6 ELSE 0, curl_body |-> cb] :
        r \in BOOLEAN, h \in {"ok", "raise"}, g \in {"ok", "raise", "http_error"},
        t \in {TextHtml, TextPlain}, l \in {Unknown, <<"4", "2">>}, rb \in Bodies,
        c \in {"ok", "failed", "timeout", "notfound", "raise"}, cb \in Bodies}

FetchArgs == [info : BOOLEAN, max_chars : {3, DefaultMaxChars}, start : {0, 2}]

InitFetch ==
    /\ suffix = "txt"
    /\ fstate = "ok"
    /\ content = <<>>
    /\ installed = {}
    /\ total_pages = 0
    /\ toc = <<>>
    /\ DocIdle
    /\ ExtractIdle
    /\ HtmlIdle
    /\ net \in Nets
    /\ fargs \in FetchArgs
    /\ calls = <<>>
    /\ fetched = <<>>
    /\ info = <<>>
    /\ fpc = "start"

\* a try that falls back on ImportError only
main_requests_import_only ==
    /\ fpc = "start"
    /\ calls' = Append(calls, "requests")
    /\ LET r == fetch_with_requests(net, Url, fargs.max_chars, fargs.start)
       IN  IF r.raised = "no"
           THEN fetched' = r.content /\ info' = r.info /\ fpc' = "fetched"
           ELSE /\ fpc' = IF r.raised = "ImportError" THEN "fallback" ELSE "raised"
                /\ UNCHANGED <<fetched, info>>
    /\ UNCHANGED <<file, doc_vars, output, extract_vars, html_vars, net, fargs>>

\* the try of main(): a fetch that returns gives content and info; one that
\* raises ImportError or any other Exception leads to the fallback, the
\* latter after a warning
main_requests ==
    /\ fpc = "start"
    /\ calls' = Append(calls, "requests")
    /\ LET r == fetch_with_requests(net, Url, fargs.max_chars, fargs.start)
       IN  IF r.raised = "no"
           THEN fetched' = r.content /\ info' = r.info /\ fpc' = "fetched"
           ELSE /\ fpc' = IF r.raised = "ImportError" THEN "fallback" ELSE "warned"
                /\ UNCHANGED <<fetched, info>>
    /\ UNCHANGED <<file, doc_vars, output, extract_vars, html_vars, net, fargs>>

\* the except clauses of main(): content, info = fetch_with_curl(...)
main_curl ==
    /\ fpc \in {"fallback", "warned"}
    /\ calls' = Append(calls, "curl")
    /\ LET r == fetch_with_curl(net, Url, fargs.max_chars, fargs.start)
       IN  IF r.raised = "no"
           THEN fetched' = r.content /\ info' = r.info /\ fpc' = "fetched"
           ELSE fpc' = "raised" /\ UNCHANGED <<fetched, info>>
    /\ UNCHANGED <<file, doc_vars, output, extract_vars, html_vars, net, fargs>>

\* the sampling strategy main() suggests under --info
Strategy(d) ==
    LET actual == IF "actual_length" \in DOMAIN d THEN d.actual_length ELSE 0
        header == IF "content_length" \in DOMAIN d THEN d.content_length ELSE <<>>
        digits == Len(header) > 0 /\ \A i \in 1..Len(header) : header[i] \in Digits
        length == IF actual # 0 THEN actual ELSE IF digits THEN Decimal(header) ELSE 0
    IN  IF actual # 0 \/ digits
        THEN [known |-> TRUE,
              windows |-> <<<<0, length \div 10>>,
                            <<length \div 4, length \div 10>>,
                            <<length \div 2, length \div 10>>,
                            <<(3 * length) \div 4, length \div 10>>,
                            <<length - (length \div 10), length \div 10>>>>]
        ELSE [known |-> FALSE, windows |-> <<>>]

\* main() prints info, and the content unless --info was given
main_print ==
    /\ fpc = "fetched"
    /\ output' = IF fargs.info
                 THEN [kind |-> "info", info |-> info, strategy |-> Strategy(info)]
                 ELSE [kind |-> "content", info |-> info, content |-> fetched]
    /\ fpc' = "printed"
    /\ UNCHANGED <<file, doc_vars, extract_vars, html_vars, net, fargs, calls, fetched, info>>

NextFetch ==
    \/ main_requests
    \/ main_curl
    \/ main_print

SpecFetch == InitFetch /\ [][NextFetch]_vars

\* ------------------------------------------------------------------------
\* Properties of the fetch order
\* ------------------------------------------------------------------------
\* what the requests-based fetch meets makes it raise
RequestsRaises == ~net.requests \/ net.head # "ok" \/ net.get # "ok"
Times(name) == Cardinality({k \in 1..Len(calls) : calls[k] = name})
Ended == fpc \in {"fetched", "printed", "raised"}
LastFetch ==
    IF calls[Len(calls)] = "requests"
    THEN fetch_with_requests(net, Url, fargs.max_chars, fargs.start)
    ELSE fetch_with_curl(net, Url, fargs.max_chars, fargs.start)

\* C13: in url_fetch's main the requests-based fetch is attempted first and
\* exactly once; fetch_with_curl is invoked, exactly once, if and only if
\* the requests attempt raised (ImportError or any other exception), never
\* after a requests fetch that returned normally; the content and info that
\* are printed come from the last fetch attempted.
C13_RequestsFirstCurlOnlyAfterFailure ==
    fpc \notin {"idle", "start"} =>
        /\ calls[1] = "requests"
        /\ Times("requests") = 1
        /\ Times("curl") <= 1
        /\ Times("curl") = 1 => RequestsRaises
        /\ Ended => (Times("curl") = 1 <=> RequestsRaises)
        /\ fpc = "printed" =>
               /\ output.info = LastFetch.info
               /\ output.kind = "content" => output.content = LastFetch.content

\* requests is installed but its fetch raised, curl was called and returned
\* a page other than the one requests would have got, and that was printed
C13_Witness ==
    /\ fpc = "printed"
    /\ net.requests
    /\ calls = <<"requests", "curl">>
    /\ net.curl = "ok"
    /\ output.kind = "content"
    /\ Raw(net.req_body) # Raw(net.curl_body)
    /\ "truncated" \in DOMAIN output.info

====
